---------------------------- MODULE Spec2Model ----------------------------
(***************************************************************************)
(* Model of Antoine_script.py: the Antoine vapor-pressure formula          *)
(* (calcular_presion_vapor), the grid search for the boiling temperature   *)
(* (calcular_ebullicion), the coefficient table df and the Dash callback   *)
(* actualizar_graficos.                                                    *)
(*                                                                         *)
(* float64 is modelled by a decimal fixed-point arithmetic with the IEEE   *)
(* special values: a finite value is an integer number of resolution       *)
(* steps, of magnitude at most MAXFIN; beyond that an operation yields     *)
(* PINF or NINF the way float64 overflows to inf, and NAN propagates the   *)
(* way a float64 NaN does.  Temperatures and the coefficients b and c are  *)
(* counted in 1/ST kelvin, the coefficients a, d, e and ln P in 1/SL, and  *)
(* pressures in 1/SP kPa.  The exponent f is an integer number.            *)
(***************************************************************************)
EXTENDS Integers, Sequences, FiniteSets, TLC

VARIABLES
    df,       \* the coefficient table, loaded when the module is imported
    pc,       \* "idle", "called" (a callback is dispatched) or "done"
    req,      \* the arguments of the dispatched callback
    resp,     \* what the callback returned or raised
    bucle,    \* the callback's local figures when it ended, and the rows its except clause skipped
    served,   \* number of callbacks answered
    last      \* the last direct call of a kernel function and its result

vars == <<df, pc, req, resp, bucle, served, last>>

---------------------------------------------------------------------------
(* float64: resolution, range and special values *)

ST == 10^3
SL == 10^4
SP == 10^3
MAXFIN == 10^9
PINF == MAXFIN + 1
NINF == 0 - (MAXFIN + 1)
NAN == MAXFIN + 2

IsNaN(x) == x = NAN
IsInf(x) == x = PINF \/ x = NINF
IsFinite(x) == ~IsNaN(x) /\ ~IsInf(x)

\* the sign of a non-NaN value: -1, 0 or 1
Sgn(x) == IF x > 0 /\ x # NAN THEN 1 ELSE IF x < 0 THEN 0 - 1 ELSE 0

\* magnitude of a finite value
Mag(x) == IF x < 0 THEN 0 - x ELSE x

\* a finite result, or the infinity it overflows to
Sat(v) == IF v > MAXFIN THEN PINF ELSE IF v < 0 - MAXFIN THEN NINF ELSE v

\* a result of sign s: magnitude m, or infinite when m is PINF
Signed(s, m) == IF m = PINF THEN (IF s < 0 THEN NINF ELSE PINF) ELSE s * m

Neg(x) == IF IsNaN(x) THEN NAN ELSE IF x = PINF THEN NINF ELSE IF x = NINF THEN PINF ELSE 0 - x

\* np.abs
Abs(x) == IF IsNaN(x) THEN NAN ELSE IF IsInf(x) THEN PINF ELSE Mag(x)

\* float64 x + y
Add(x, y) ==
    IF IsNaN(x) \/ IsNaN(y) THEN NAN
    ELSE IF IsInf(x) THEN (IF IsInf(y) /\ y # x THEN NAN ELSE x)
    ELSE IF IsInf(y) THEN y
    ELSE Sat(x + y)

\* float64 x - y
Sub(x, y) == Add(x, Neg(y))

\* x < y as float64 compares: false when either is NaN
Less(x, y) == ~IsNaN(x) /\ ~IsNaN(y) /\ x < y

\* n / m rounded to the nearest integer, n >= 0, m > 0
RoundDiv(n, m) == (n \div m) + (IF 2 * (n % m) >= m THEN 1 ELSE 0)

\* the product of two magnitudes, or PINF when it exceeds MAXFIN
SafeMul(m, n) == IF m = 0 \/ n = 0 THEN 0 ELSE IF m > MAXFIN \div n THEN PINF ELSE m * n

\* magnitudes m (any scale) times n (scale S): m * n / S in the scale of m
MulMag(m, n, S) ==
    LET mq == m \div S
        mr == m % S
        nq == n \div S
        nr == n % S
        hi == SafeMul(SafeMul(mq, nq), S)
    IN  IF hi = PINF THEN PINF
        ELSE Add(Add(hi, mq * nr), Add(mr * nq, RoundDiv(mr * nr, S)))

\* float64 x * y, y counted in 1/S
Mul(x, y, S) ==
    IF IsNaN(x) \/ IsNaN(y) THEN NAN
    ELSE IF IsInf(x) \/ IsInf(y)
         THEN (IF x = 0 \/ y = 0 THEN NAN ELSE Signed(Sgn(x) * Sgn(y), PINF))
    ELSE Signed(Sgn(x) * Sgn(y), MulMag(Mag(x), Mag(y), S))

\* the first n decimal digits of r / m, 0 <= r < m, and the remainder left
RECURSIVE Frac(_, _, _)
Frac(r, m, n) ==
    IF n = 0 THEN <<0, r>>
    ELSE LET rest == Frac((r * 10) % m, m, n - 1)
         IN  <<((r * 10) \div m) * 10^(n - 1) + rest[1], rest[2]>>

\* magnitudes n / m in 1/SL, n and m in the same scale, m > 0
DivMag(n, m) ==
    IF m > MAXFIN \div 10 THEN n \div (m \div SL)
    ELSE LET fr == Frac(n % m, m, 4)
         IN  Add(SafeMul(n \div m, SL), fr[1] + (IF 2 * fr[2] >= m THEN 1 ELSE 0))

\* float64 x / y for x and y in the same scale; the result is in 1/SL.
\* A zero divisor is +0.0 (T + c of two finite numbers), so x / 0 is
\* inf with the sign of x, and 0 / 0 is NaN.
Div(x, y) ==
    IF IsNaN(x) \/ IsNaN(y) THEN NAN
    ELSE IF IsInf(x) THEN (IF IsInf(y) THEN NAN
                           ELSE Signed(Sgn(x) * (IF y < 0 THEN 0 - 1 ELSE 1), PINF))
    ELSE IF IsInf(y) THEN 0
    ELSE IF y = 0 THEN (IF x = 0 THEN NAN ELSE Signed(Sgn(x), PINF))
    ELSE Signed(Sgn(x) * Sgn(y), DivMag(Mag(x), Mag(y)))

\* 10^6 ln 2, rounded down
LN2 == 693147

\* the mantissa m in SL..2*SL-1 (1/SL) and the binary exponent k of a
\* positive number: the number is about (m / SL) * 2^k
RECURSIVE Normal(_, _)
Normal(m, k) ==
    IF m >= 2 * SL THEN Normal(m \div 2, k + 1)
    ELSE IF m < SL THEN Normal(m * 2, k - 1)
    ELSE <<m, k>>

\* ln(m / SL) in 1/SL for SL <= m < 2 SL: 2 atanh z, z = (m - SL) / (m + SL)
LnMantissa(m) ==
    LET z  == ((m - SL) * SL) \div (m + SL)
        z2 == (z * z) \div SL
        z3 == (z * z2) \div SL
        z5 == (z3 * z2) \div SL
        z7 == (z5 * z2) \div SL
        z9 == (z7 * z2) \div SL
    IN  RoundDiv(2 * (z * 315 + z3 * 105 + z5 * 63 + z7 * 45 + z9 * 35), 315)

\* np.log of a temperature (1/ST kelvin); the result is in 1/SL
Log(T) ==
    IF IsNaN(T) \/ T < 0 THEN NAN
    ELSE IF T = 0 THEN NINF
    ELSE IF T = PINF THEN PINF
    ELSE LET nk == IF T > MAXFIN \div 16 THEN Normal((T \div 16) * (SL \div ST), 4)
                   ELSE Normal(T * (SL \div ST), 0)
             kl == nk[2] * LN2
         IN  Signed(Sgn(kl), RoundDiv(Mag(kl), 100)) + LnMantissa(nk[1])

\* e^(r / SL) in 1/10^5 for 0 <= r < SL ln 2, rounded down: the Taylor
\* polynomial of degree 8 in Horner's form
ExpFrac(r) ==
    LET one == 10^5
        h8 == one + (r * one) \div (8 * SL)
        h7 == one + (r * h8) \div (7 * SL)
        h6 == one + (r * h7) \div (6 * SL)
        h5 == one + (r * h6) \div (5 * SL)
        h4 == one + (r * h5) \div (4 * SL)
        h3 == one + (r * h4) \div (3 * SL)
        h2 == one + (r * h3) \div (2 * SL)
    IN  one + (r * h2) \div SL

\* np.exp of ln P (1/SL); the result is a pressure in 1/SP kPa.
\* e^x = 2^k e^r with x = k ln 2 + r; every step rounds down, so the
\* result never decreases when x grows.
Exp(x) ==
    IF IsNaN(x) THEN NAN
    ELSE IF x = PINF \/ x > 21 * SL THEN PINF
    ELSE IF x = NINF \/ x < 0 - 21 * SL THEN 0
    ELSE LET k == (x * 100) \div LN2
             E == ExpFrac(((x * 100) % LN2) \div 100)
             u == (10^5) \div SP
         IN  IF k < 0 - 17 THEN 0
             ELSE IF k < 0 THEN E \div (u * 2^(0 - k))
             ELSE IF k <= 13 THEN (E * 2^k) \div u
             ELSE Sat(SafeMul((E * 2^13) \div u, 2^(k - 13)))

\* T**f for an integer exponent f >= 0, in 1/ST, by repeated squaring;
\* x**0 is 1 for every x
RECURSIVE Pow(_, _)
Pow(T, f) ==
    IF IsNaN(f) THEN NAN
    ELSE IF f = 0 THEN ST
    ELSE LET h  == Pow(T, f \div 2)
             sq == Mul(h, h, ST)
         IN  IF f % 2 = 1 THEN Mul(sq, T, ST) ELSE sq

---------------------------------------------------------------------------
(* values that reach the functions *)

\* a JSON null argument of the callback (Python's None)
None == [t |-> "null"]
Num(n) == [t |-> "num", v |-> n]
\* a list of component names
Lista(S) == [t |-> "list", v |-> S]
\* a string, as the sequence of its parts between the "|" characters
Str(parts) == [t |-> "str", v |-> parts]

\* what a call does: it returns a value, or it raises
Return(v) == [exc |-> "", val |-> v]
Raise(e) == [exc |-> e, val |-> 0]

\* the exception classes that are LookupErrors
LookupErrors == {"IndexError", "KeyError"}

---------------------------------------------------------------------------
(* the Antoine kernel *)

\* np.linspace(start, stop, num)[i], start <= stop, 0 <= i < num
Linspace(start, stop, num, i) == start + RoundDiv(i * (stop - start), num - 1)

\* ln P = a + b / (T + c) + d * np.log(T) + e * T**f
\* LnP with the Antoine term taken at the temperature in degrees Celsius
LnP_celsius(T, a, b, c, d, e, f) ==
    Add(Add(Add(a, Div(b, Add(Add(T, 0 - 273150), c))), Mul(d, Log(T), SL)), Mul(e, Pow(T, f), ST))

LnP(T, a, b, c, d, e, f) ==
    Add(Add(Add(a, Div(b, Add(T, c))), Mul(d, Log(T), SL)), Mul(e, Pow(T, f), ST))

calcular_presion_vapor(T, a, b, c, d, e, f) == Exp(LnP(T, a, b, c, d, e, f))

gridMin == 200
gridMax == 700
gridSize == 1000

\* T_range of calcular_ebullicion, indexed from 0
T_range == [i \in 0..(gridSize - 1) |-> Linspace(gridMin * ST, gridMax * ST, gridSize, i)]

\* P_calc of calcular_ebullicion for the coefficients co = <<a, b, c, d, e, f>>
P_calc(co) ==
    [i \in 0..(gridSize - 1) |-> Exp(LnP(T_range[i], co[1], co[2], co[3], co[4], co[5], co[6]))]

\* np.abs(P_calc - P_objetivo)[i]
\* Dist without the absolute value
Dist_sin_abs(P, P_objetivo, i) == Sub(P[i], P_objetivo)

Dist(P, P_objetivo, i) == Abs(Sub(P[i], P_objetivo))

\* whether np.argmin prefers the element y to the element x that comes
\* before it: the first NaN wins, and without a NaN the first least element
\* Better with the last of equal distances winning
Better_ultimo(y, x) == ~IsNaN(x) /\ (IsNaN(y) \/ y <= x)

Better(y, x) == ~IsNaN(x) /\ (IsNaN(y) \/ y < x)

\* np.argmin of np.abs(P - P_objetivo) over the indices lo..hi
RECURSIVE ArgMin(_, _, _, _)
ArgMin(P, P_objetivo, lo, hi) ==
    IF lo = hi THEN lo
    ELSE LET m == (lo + hi) \div 2
             l == ArgMin(P, P_objetivo, lo, m)
             r == ArgMin(P, P_objetivo, m + 1, hi)
         IN  IF Better(Dist(P, P_objetivo, r), Dist(P, P_objetivo, l)) THEN r ELSE l

---------------------------------------------------------------------------
(* the input table parametros_antoine.txt.txt and the inputs of the model *)

\* a line of the table: its label, then one cell for each component
Fila(label, cells) == <<label>> \o cells

\* a table of three components: a header line, ten lines of other
\* properties, and the six lines of coefficients a..f
Tabla(names, a, b, c, d, e, f) ==
    [header |-> Fila("Property", names),
     rows   |-> [i \in 1..10 |-> Fila("other", <<0, 0, 0>>)]
                \o <<Fila("a", a), Fila("b", b), Fila("c", c),
                     Fila("d", d), Fila("e", e), Fila("f", f)>>]

\* the grid temperature at which the components polo and polar have T + c = 0
TPolo == T_range[400]

\* agua: water, c shifted to kelvin.  aguaC: the same with c for degrees
\* Celsius.  plano: a constant pressure.
Archivo1 ==
    Tabla(<<"agua", "aguaC", "plano">>,
          <<163872, 163872, 50000>>,
          <<0 - 3885700, 0 - 3885700, 0>>,
          <<0 - 42980, 230170, 0>>,
          <<0, 0, 0>>, <<0, 0, 0>>, <<0, 0, 0>>)

\* lineal: ln P = 1 + 0.01 T.  polo: the same with 0 / 0 at TPolo, a NaN
\* pressure at that one grid point.  curva: a pressure that rises and
\* then falls.
Archivo2 ==
    Tabla(<<"lineal", "polo", "curva">>,
          <<10000, 10000, 0 - 450000>>,
          <<0, 0, 0>>,
          <<0, 0 - TPolo, 0>>,
          <<0, 0, 100000>>,
          <<100, 100, 0 - 250>>,
          <<1, 1, 1>>)

\* vacio: an empty cell, read as NaN.  enorme: e^1000 overflows at every
\* grid point.  polar: b / 0 at TPolo, an infinite pressure at that point.
Archivo3 ==
    Tabla(<<"vacio", "enorme", "polar">>,
          <<NAN, 10000000, 46184>>,
          <<0, 0, 1000>>,
          <<0, 0, 0 - TPolo>>,
          <<0, 0, 0>>, <<0, 0, 0>>, <<0, 0, 0>>)

Archivos == {Archivo1, Archivo2, Archivo3}

\* a component name that no table holds
Ajeno == "otro"

\* the values of the slider Ptarget (kPa, in 1/SP) the model sends
Ptargets == {101325, 10 * SP, 5000 * SP}

\* the temperatures given to calcular_presion_vapor alone (1/ST kelvin)
T0s == {gridMin * ST, 200250, 373150, TPolo, 550 * ST, gridMax * ST}

\* presiones of actualizar_graficos: np.linspace(10, 5000, 200)
presiones(i) == Linspace(10 * SP, 5000 * SP, 200, i)

\* a curve of a figure is recorded at its first and its last point
Muestra(num) == <<0, num - 1>>

---------------------------------------------------------------------------
(* cargar_parametros_desde_tabla *)

cargar_parametros_desde_tabla(raw) ==
    LET columnas == Tail(raw.header)
        filas    == [k \in 1..6 |-> Tail(SubSeq(raw.rows, 11, 16)[k])]
    IN  [j \in 1..Len(columnas) |->
            [Component |-> columnas[j],
             a |-> filas[1][j], b |-> filas[2][j], c |-> filas[3][j],
             d |-> filas[4][j], e |-> filas[5][j], f |-> filas[6][j]]]

\* row[['a', 'b', 'c', 'd', 'e', 'f']]
Coef(row) == <<row.a, row.b, row.c, row.d, row.e, row.f>>

---------------------------------------------------------------------------
(* calcular_ebullicion *)

\* the coefficient sets and, for each, the target pressures of the model:
\* the grid pressures and the searches for them are computed once
Coefs == UNION {{Coef(cargar_parametros_desde_tabla(raw)[j]) : j \in 1..3} : raw \in Archivos}

Objetivos ==
    [co \in Coefs |->
        Ptargets \cup {presiones(Muestra(200)[k]) : k \in 1..2}
                 \cup {calcular_presion_vapor(T, co[1], co[2], co[3], co[4], co[5], co[6]) : T \in T0s}]

PGrid == [co \in Coefs |-> P_calc(co)]

\* lines 23-27 for a number P_objetivo
\* Buscar returning the middle between the nearest grid point and the next
Buscar_interpolada(P, P_objetivo) ==
    (T_range[ArgMin(P, P_objetivo, 0, gridSize - 1)]
        + T_range[(ArgMin(P, P_objetivo, 0, gridSize - 1) + 1) % gridSize]) \div 2

Buscar(P, P_objetivo) == T_range[ArgMin(P, P_objetivo, 0, gridSize - 1)]

Buscado == [co \in Coefs |-> [p \in Objetivos[co] |-> Buscar(PGrid[co], p)]]

\* the search already computed for co and p, or else the search itself
Consultar(B, co, p, search) ==
    IF co \in DOMAIN B /\ p \in DOMAIN B[co] THEN B[co][p] ELSE search

\* P_calc - None raises TypeError; a number runs the search
calcular_ebullicion(P_objetivo, a, b, c, d, e, f) ==
    IF P_objetivo = None THEN Raise("TypeError")
    ELSE Return(Consultar(Buscado, <<a, b, c, d, e, f>>, P_objetivo.v,
                          Buscar(P_calc(<<a, b, c, d, e, f>>), P_objetivo.v)))

---------------------------------------------------------------------------
(* actualizar_graficos *)

\* the component names of a table
Nombres(d) == {d[j].Component : j \in 1..Len(d)}

\* df[df["Component"] == nombre]: the matching rows, in the table's order
Filas(d, nombre) == SelectSeq(d, LAMBDA row : row.Component = nombre)

\* lines 88-92 of a turn of the loop: the pressure trace is added before
\* calcular_ebullicion runs, and the bare except skips the rest of the turn
\* when that call raises.  x, P: the curve; T_eb: what the call did.
\* Trazar leaving out the bar of a search that ended at the first grid point
Trazar_sin_barra(figs, nombre, x, P, T_eb) ==
    [fig_presion    |-> Append(figs.fig_presion, [name |-> nombre, x |-> x, y |-> P]),
     fig_ebullicion |-> IF T_eb.exc # "" \/ T_eb.val = T_range[0]
                        THEN figs.fig_ebullicion
                        ELSE Append(figs.fig_ebullicion,
                                    [name |-> nombre, x |-> <<nombre>>, y |-> <<T_eb.val>>]),
     omitidos       |-> IF T_eb.exc # "" THEN Append(figs.omitidos, nombre) ELSE figs.omitidos]

Trazar(figs, nombre, x, P, T_eb) ==
    LET con_presion == Append(figs.fig_presion, [name |-> nombre, x |-> x, y |-> P])
    IN  IF T_eb.exc # ""
        THEN [fig_presion    |-> con_presion,
              fig_ebullicion |-> figs.fig_ebullicion,
              omitidos       |-> Append(figs.omitidos, nombre)]
        ELSE [fig_presion    |-> con_presion,
              fig_ebullicion |-> Append(figs.fig_ebullicion,
                                        [name |-> nombre, x |-> <<nombre>>, y |-> <<T_eb.val>>]),
              omitidos       |-> figs.omitidos]

\* T_range of actualizar_graficos at the recorded points
T_plot(Tmin, Tmax, k) == Linspace(Tmin.v, Tmax.v, 300, Muestra(300)[k])

\* lines 84-92, one turn of the loop over df_filtrado
Vuelta(figs, row, Tmin, Tmax, Ptarget) ==
    Trazar(figs, row.Component,
           [k \in 1..2 |-> T_plot(Tmin, Tmax, k)],
           [k \in 1..2 |-> calcular_presion_vapor(T_plot(Tmin, Tmax, k),
                                                  row.a, row.b, row.c, row.d, row.e, row.f)],
           calcular_ebullicion(Ptarget, row.a, row.b, row.c, row.d, row.e, row.f))

\* Bucle without the try: the first error ends the loop
RECURSIVE Bucle_sin_try(_, _, _, _, _)
Bucle_sin_try(figs, rows, Tmin, Tmax, Ptarget) ==
    IF rows = <<>> \/ figs.omitidos # <<>> THEN figs
    ELSE Bucle_sin_try(Vuelta(figs, Head(rows), Tmin, Tmax, Ptarget), Tail(rows), Tmin, Tmax, Ptarget)

\* lines 83-92, the loop over the rows of df_filtrado
RECURSIVE Bucle(_, _, _, _, _)
Bucle(figs, rows, Tmin, Tmax, Ptarget) ==
    IF rows = <<>> THEN figs
    ELSE Bucle(Vuelta(figs, Head(rows), Tmin, Tmax, Ptarget), Tail(rows), Tmin, Tmax, Ptarget)

SinFiguras == [fig_presion |-> <<>>, fig_ebullicion |-> <<>>, omitidos |-> <<>>]

\* the callback raises e at a line of the source, with these local figures
Aborta(e, line, figs) == [exc |-> e, line |-> line, figuras |-> <<>>, bucle |-> figs]

\* lines 101-120: both rows of the pair are found
Diferencias(figs, nombre1, nombre2, fila1, fila2, Ptarget) ==
    LET T1 == calcular_ebullicion(Ptarget, fila1.a, fila1.b, fila1.c, fila1.d, fila1.e, fila1.f).val
        T2 == calcular_ebullicion(Ptarget, fila2.a, fila2.b, fila2.c, fila2.d, fila2.e, fila2.f).val
        P(k) == presiones(Muestra(200)[k])
        t1(k) == calcular_ebullicion(Num(P(k)), fila1.a, fila1.b, fila1.c, fila1.d, fila1.e, fila1.f).val
        t2(k) == calcular_ebullicion(Num(P(k)), fila2.a, fila2.b, fila2.c, fila2.d, fila2.e, fila2.f).val
        fig_dif == <<[x |-> <<nombre2, nombre1>>, y |-> <<Mag(T2 - T1)>>]>>
        fig_dif_vs_P == <<[x |-> [k \in 1..2 |-> P(k)], y |-> [k \in 1..2 |-> Mag(t2(k) - t1(k))]]>>
    IN  [exc |-> "", line |-> 120,
         figuras |-> <<figs.fig_presion, figs.fig_ebullicion, fig_dif, fig_dif_vs_P>>,
         bucle |-> figs]

\* Resto taking the first row of the table for a name the table does not hold
Resto_por_defecto(d, figs, Ptarget, par_componentes) ==
    IF Ptarget = None THEN Aborta("TypeError", 95, figs)
    ELSE IF par_componentes = None THEN Aborta("AttributeError", 97, figs)
    ELSE IF Len(par_componentes.v) # 2 THEN Aborta("ValueError", 97, figs)
    ELSE Diferencias(figs, par_componentes.v[1], par_componentes.v[2],
                     (Filas(d, par_componentes.v[1]) \o d)[1],
                     (Filas(d, par_componentes.v[2]) \o d)[1],
                     Ptarget)

\* lines 94-120: the titles, the look-up of the pair, the differences
Resto(d, figs, Ptarget, par_componentes) ==
    IF Ptarget = None THEN Aborta("TypeError", 95, figs)
    ELSE IF par_componentes = None THEN Aborta("AttributeError", 97, figs)
    ELSE IF Len(par_componentes.v) # 2 THEN Aborta("ValueError", 97, figs)
    ELSE IF Filas(d, par_componentes.v[1]) = <<>> THEN Aborta("IndexError", 98, figs)
    ELSE IF Filas(d, par_componentes.v[2]) = <<>> THEN Aborta("IndexError", 99, figs)
    ELSE Diferencias(figs, par_componentes.v[1], par_componentes.v[2],
                     Filas(d, par_componentes.v[1])[1], Filas(d, par_componentes.v[2])[1],
                     Ptarget)

\* the whole callback, lines 76-120, on the table d
Callback(d, Tmin, Tmax, Ptarget, componentes_seleccionados, par_componentes) ==
    IF Tmin = None \/ Tmax = None THEN Aborta("TypeError", 77, SinFiguras)
    ELSE IF componentes_seleccionados = None THEN Aborta("TypeError", 78, SinFiguras)
    ELSE Resto(d,
               Bucle(SinFiguras,
                     SelectSeq(d, LAMBDA row : row.Component \in componentes_seleccionados.v),
                     Tmin, Tmax, Ptarget),
               Ptarget, par_componentes)

---------------------------------------------------------------------------
(* the state machine *)

\* number of callbacks the model answers
MaxServed == 2

Ninguna == [fn |-> "", T |-> 0, P |-> Num(0), co |-> <<>>, ret |-> Return(0), chained |-> FALSE]
SinPeticion == [Tmin |-> None, Tmax |-> None, Ptarget |-> None,
                componentes_seleccionados |-> None, par_componentes |-> None]
SinRespuesta == [exc |-> "", line |-> 0, figuras |-> <<>>]

\* line 29: the table is loaded once, when the module is imported
Init ==
    /\ df \in {cargar_parametros_desde_tabla(raw) : raw \in Archivos}
    /\ pc = "idle"
    /\ req = SinPeticion
    /\ resp = SinRespuesta
    /\ bucle = SinFiguras
    /\ served = 0
    /\ last = Ninguna

\* the values Dash can send for each argument
Tmins == {Num(250 * ST), None}
Tmaxs == {Num(550 * ST), None}
PtargetsJSON == {Num(p) : p \in Ptargets} \cup {None}
Selecciones(d) == {Lista(S) : S \in SUBSET (Nombres(d) \cup {Ajeno})} \cup {None}
Pares(d) ==
    LET N == Nombres(d) \cup {Ajeno}
    IN  {Str(<<n1, n2>>) : n1 \in N, n2 \in N}
        \cup {Str(<<d[1].Component>>), Str(<<d[1].Component, d[2].Component, d[3].Component>>), None}

\* lines 65-75: Dash dispatches the callback with the values of its inputs
Dispatch ==
    /\ pc = "idle"
    /\ served < MaxServed
    /\ \E Tmin \in Tmins, Tmax \in Tmaxs, Ptarget \in PtargetsJSON,
          sel \in Selecciones(df), par \in Pares(df) :
            req' = [Tmin |-> Tmin, Tmax |-> Tmax, Ptarget |-> Ptarget,
                    componentes_seleccionados |-> sel, par_componentes |-> par]
    /\ pc' = "called"
    /\ UNCHANGED <<df, resp, bucle, served, last>>

\* actualizar_graficos keeping the filtered table in df
actualizar_graficos_filtra ==
    /\ pc = "called"
    /\ \E r \in {Callback(df, req.Tmin, req.Tmax, req.Ptarget,
                           req.componentes_seleccionados, req.par_componentes)} :
            /\ resp' = [exc |-> r.exc, line |-> r.line, figuras |-> r.figuras]
            /\ bucle' = r.bucle
    /\ df' = IF req.componentes_seleccionados = None THEN df
             ELSE SelectSeq(df, LAMBDA row : row.Component \in req.componentes_seleccionados.v)
    /\ pc' = "done"
    /\ UNCHANGED <<req, served, last>>

\* lines 76-120
actualizar_graficos ==
    /\ pc = "called"
    /\ \E r \in {Callback(df, req.Tmin, req.Tmax, req.Ptarget,
                           req.componentes_seleccionados, req.par_componentes)} :
            /\ resp' = [exc |-> r.exc, line |-> r.line, figuras |-> r.figuras]
            /\ bucle' = r.bucle
    /\ pc' = "done"
    /\ UNCHANGED <<df, req, served, last>>

\* Dash sends the figures, or the error, to the browser
Respond ==
    /\ pc = "done"
    /\ pc' = "idle"
    /\ served' = served + 1
    /\ req' = SinPeticion
    /\ resp' = SinRespuesta
    /\ bucle' = SinFiguras
    /\ UNCHANGED <<df, last>>

Next == Dispatch \/ actualizar_graficos \/ Respond

Spec == Init /\ [][Next]_vars

\* a direct call of calcular_presion_vapor with a row of the table
PresionVapor ==
    \E j \in 1..Len(df), T \in T0s :
        /\ last' = [fn |-> "calcular_presion_vapor", T |-> T,
                    P |-> Num(calcular_presion_vapor(T, df[j].a, df[j].b, df[j].c,
                                                     df[j].d, df[j].e, df[j].f)),
                    co |-> Coef(df[j]), ret |-> Return(0), chained |-> FALSE]
        /\ UNCHANGED <<df, pc, req, resp, bucle, served>>

\* a direct call of calcular_ebullicion with a target pressure and a row
Ebullicion ==
    \E j \in 1..Len(df), P_objetivo \in PtargetsJSON :
        /\ last' = [fn |-> "calcular_ebullicion", T |-> 0, P |-> P_objetivo,
                    co |-> Coef(df[j]),
                    ret |-> calcular_ebullicion(P_objetivo, df[j].a, df[j].b, df[j].c,
                                                df[j].d, df[j].e, df[j].f),
                    chained |-> FALSE]
        /\ UNCHANGED <<df, pc, req, resp, bucle, served>>

\* calcular_ebullicion(calcular_presion_vapor(T0, coeffs), coeffs): the
\* pressure the last call returned is the target of the search
EbullicionDePresion ==
    /\ last.fn = "calcular_presion_vapor"
    /\ last' = [fn |-> "calcular_ebullicion", T |-> last.T, P |-> last.P, co |-> last.co,
                ret |-> calcular_ebullicion(last.P, last.co[1], last.co[2], last.co[3],
                                            last.co[4], last.co[5], last.co[6]),
                chained |-> TRUE]
    /\ UNCHANGED <<df, pc, req, resp, bucle, served>>

NextKernel == PresionVapor \/ Ebullicion \/ EbullicionDePresion

SpecKernel == Init /\ [][NextKernel]_vars

---------------------------------------------------------------------------
(* what the claims are stated with *)

Indices == 0..(gridSize - 1)

\* the grid temperatures, as a set
Malla == {T_range[i] : i \in Indices}

\* the index of a grid temperature
Indice(T) == CHOOSE i \in Indices : T_range[i] = T

\* the grid pressures of the coefficients of the last direct call
Presiones == PGrid[last.co]

\* a direct call of calcular_ebullicion with a number has returned
Buscada == last.fn = "calcular_ebullicion" /\ last.P # None

\* x <= y as float64 compares
Leq(x, y) == ~IsNaN(x) /\ ~IsNaN(y) /\ x <= y

\* the distance of the grid pressure i to the target of the last call
Distancia(i) == Abs(Sub(Presiones[i], last.P.v))

\* one grid step, in 1/ST kelvin, rounded up
Paso == ((gridMax - gridMin) * ST) \div (gridSize - 1) + 1

\* the grid pressures grow, or fall, strictly along the grid
Monotona(P) ==
    \/ \A i \in 1..(gridSize - 1) : IsFinite(P[i - 1]) /\ IsFinite(P[i]) /\ P[i - 1] < P[i]
    \/ \A i \in 1..(gridSize - 1) : IsFinite(P[i - 1]) /\ IsFinite(P[i]) /\ P[i - 1] > P[i]

\* the names of the traces of a figure, in order
Trazas(fig) == [k \in 1..Len(fig) |-> fig[k].name]

\* the names of a sequence, as a set
Rango(seq) == {seq[k] : k \in 1..Len(seq)}

\* the loop of the callback was reached: lines 77 and 78 did not raise
BucleHecho == pc = "done" /\ resp.line > 78

\* the selected names that the table holds, in the table's order
Elegidos ==
    Trazas(SelectSeq([j \in 1..Len(df) |-> [name |-> df[j].Component]],
                     LAMBDA t : t.name \in req.componentes_seleccionados.v))

\* the pair names a component that the table does not hold
ParAjeno ==
    /\ req.par_componentes # None
    /\ Len(req.par_componentes.v) = 2
    /\ \E k \in 1..2 : req.par_componentes.v[k] \notin Nombres(df)

---------------------------------------------------------------------------
(* C1: for a finite target pressure and a grid without a NaN pressure,
   calcular_ebullicion returns the grid temperature of the least index
   whose pressure is nearest to the target: no grid pressure is nearer, and
   every grid point before it is strictly farther. *)
C1_PrimerMinimo ==
    (Buscada /\ IsFinite(last.P.v) /\ \A j \in Indices : ~IsNaN(Presiones[j]))
    => /\ last.ret.exc = ""
       /\ last.ret.val \in Malla
       /\ \E i \in {Indice(last.ret.val)} : \E m \in {Distancia(i)} :
              /\ \A j \in Indices : Leq(m, Distancia(j))
              /\ \A j \in 0..(i - 1) : ~Leq(Distancia(j), m)

\* such a search that ended away from the first grid point with several
\* grid points at the least distance
C1_Testigo ==
    /\ Buscada /\ IsFinite(last.P.v) /\ \A j \in Indices : ~IsNaN(Presiones[j])
    /\ last.ret.val # T_range[0]
    /\ \E m \in {Distancia(Indice(last.ret.val))} :
          \E j \in Indices : T_range[j] # last.ret.val /\ Distancia(j) = m

(* C2: whatever the target and the coefficients, NaN and infinite grid
   pressures included, a value calcular_ebullicion returns is one of the
   gridSize grid temperatures between gridMin and gridMax. *)
C2_EnLaMalla ==
    (last.fn = "calcular_ebullicion" /\ last.ret.exc = "")
    => \E i \in Indices :
          /\ last.ret.val = T_range[i]
          /\ last.ret.val = gridMin * ST + RoundDiv(i * (gridMax - gridMin) * ST, gridSize - 1)
          /\ gridMin * ST <= last.ret.val /\ last.ret.val <= gridMax * ST

\* a search over a grid with a NaN pressure that returned
C2_Testigo ==
    /\ Buscada /\ last.ret.exc = ""
    /\ \E j \in Indices : IsNaN(Presiones[j])
    /\ \E j \in Indices : ~IsNaN(Presiones[j])

(* C3 as stated: for every coefficient set and every T0 in [gridMin,
   gridMax] with a defined (finite) vapor pressure, the search for that
   pressure returns a temperature within one grid step of T0. *)
C3_IdaYVuelta ==
    (last.fn = "calcular_ebullicion" /\ last.chained /\ IsFinite(last.P.v))
    => /\ last.ret.exc = ""
       /\ Mag(last.ret.val - last.T) <= Paso

\* the pressure of the chained call lies between the grid pressures of the
\* two grid points around its temperature
Acotada ==
    \E i \in 0..(gridSize - 2) :
        /\ T_range[i] <= last.T /\ last.T <= T_range[i + 1]
        /\ \/ Presiones[i] <= last.P.v /\ last.P.v <= Presiones[i + 1]
           \/ Presiones[i] >= last.P.v /\ last.P.v >= Presiones[i + 1]

(* C3 amended: the same, for the coefficient sets whose grid pressures are
   finite and strictly monotonic along the grid, and the temperatures T0
   whose pressure lies between those of the two grid points around T0. *)
C3_IdaYVueltaMonotona ==
    (last.fn = "calcular_ebullicion" /\ last.chained /\ IsFinite(last.P.v)
        /\ Monotona(Presiones) /\ Acotada)
    => /\ last.ret.exc = ""
       /\ Mag(last.ret.val - last.T) <= Paso

\* a round trip over a strictly monotonic grid from a T0 off the grid
C3_Testigo ==
    /\ last.fn = "calcular_ebullicion" /\ last.chained /\ IsFinite(last.P.v)
    /\ Monotona(Presiones) /\ Acotada
    /\ last.T \notin Malla
    /\ last.ret.val > T_range[1]

\* the coefficients and the target of the example of C4
AguaC == <<163872, 0 - 3885700, 230170, 0, 0, 0>>
EjemploC4 == Buscada /\ ~last.chained /\ last.co = AguaC /\ last.P = Num(101325)

(* C4 as stated: with a = 16.3872, b = -3885.70, c = 230.170, d = e = f = 0
   and the target 101.325 kPa the search returns about 373 K, within the
   grid resolution of 0.5 K. *)
C4_Ejemplo373 ==
    EjemploC4 => (last.ret.exc = "" /\ Mag(last.ret.val - 373 * ST) <= ST \div 2)

(* C4 amended: with these coefficients and this target the search returns
   200 K, the first grid temperature: the pressure there is the nearest to
   the target, and it is more than ten times the target. *)
C4_Ejemplo200 ==
    EjemploC4 => /\ last.ret = Return(gridMin * ST)
                 /\ \A j \in Indices : Presiones[j] >= Presiones[0]
                 /\ Presiones[0] > 10 * last.P.v

C4_Testigo == EjemploC4 /\ last.ret.exc = ""

\* every input but the pair is of the type its component sends
Validos ==
    /\ req.Tmin # None /\ req.Tmax # None /\ req.Ptarget # None
    /\ req.componentes_seleccionados # None

(* C5: a callback whose pair names a component that the table does not hold
   fails and returns no figures; with the other inputs valid the failure is
   a LookupError raised by the look-up of the pair, lines 98-99. *)
C5_ParAjenoFalla ==
    (pc = "done" /\ ParAjeno)
    => /\ resp.exc # ""
       /\ resp.figuras = <<>>
       /\ Validos => (resp.exc \in LookupErrors /\ resp.line \in {98, 99})

\* such a callback that got through the loop with two traces and failed at
\* the look-up
C5_Testigo ==
    /\ pc = "done" /\ ParAjeno /\ Validos
    /\ resp.exc = "IndexError"
    /\ Len(bucle.fig_presion) >= 2

(* C6 as stated: when an error is raised for a selected component inside the
   loop, the remaining selected components are still evaluated and the
   callback goes on to completion, unless the look-up of the pair aborts it. *)
C6_AisladoYCompleta ==
    (BucleHecho /\ bucle.omitidos # <<>>)
    => /\ Trazas(bucle.fig_presion) = Elegidos
       /\ resp.exc = "" \/ resp.line \in {98, 99}

(* C6 amended: an error raised for a selected component inside the loop is
   not what the callback raises, and the loop goes on: every selected
   component of the table is evaluated, the components whose boiling search
   raised get no bar; and a callback that the look-up of the pair aborts
   raises a LookupError and returns no figures. *)
C6_AisladoEnElBucle ==
    /\ BucleHecho
       => /\ Trazas(bucle.fig_presion) = Elegidos
          /\ Rango(Trazas(bucle.fig_ebullicion)) = Rango(Elegidos) \ Rango(bucle.omitidos)
          /\ resp.line \notin 83..92
    /\ (pc = "done" /\ resp.line \in {98, 99})
       => (resp.exc \in LookupErrors /\ resp.figuras = <<>>)

\* a callback in whose loop two components raised, and that then failed at
\* the title of line 95
C6_Testigo ==
    /\ BucleHecho
    /\ Len(bucle.omitidos) >= 2
    /\ resp.exc = "TypeError" /\ resp.line = 95

(* C7 as stated: the search ignores the grid points whose pressure is NaN or
   infinite and returns the nearest of the finite ones, the first of equal
   distances, and it fails with an error when no grid pressure is finite. *)
C7_IgnoraNoFinitos ==
    (Buscada /\ IsFinite(last.P.v))
    => IF \E j \in Indices : IsFinite(Presiones[j])
       THEN /\ last.ret.exc = ""
            /\ last.ret.val \in Malla
            /\ \E i \in {Indice(last.ret.val)} : \E m \in {Distancia(i)} :
                  /\ IsFinite(Presiones[i])
                  /\ \A j \in Indices : IsFinite(Presiones[j]) => Leq(m, Distancia(j))
                  /\ \A j \in 0..(i - 1) : IsFinite(Presiones[j]) => ~Leq(Distancia(j), m)
       ELSE last.ret.exc # ""

(* C8: no call of actualizar_graficos, completed or failed, changes the
   table loaded at start-up: the names and the six coefficients of every
   component stay what cargar_parametros_desde_tabla returned. *)
C8_TablaIntacta == [][df' = df]_vars

\* a second callback has ended, with components selected
C8_Testigo ==
    /\ pc = "done" /\ served >= 1
    /\ req.componentes_seleccionados # None
    /\ req.componentes_seleccionados.v # {}
    /\ df \in {cargar_parametros_desde_tabla(raw) : raw \in Archivos}

(* C10: when actualizar_graficos completes, the pressure chart and the
   boiling chart returned hold traces for the same components, the selected
   components of the table, each once and in the same order, and a
   component skipped in the loop has a trace in neither. *)
C10_MismosComponentes ==
    (pc = "done" /\ resp.exc = "")
    => /\ Trazas(resp.figuras[1]) = Trazas(resp.figuras[2])
       /\ Trazas(resp.figuras[1]) = Elegidos
       /\ Cardinality(Rango(Trazas(resp.figuras[1]))) = Len(resp.figuras[1])
       /\ \A n \in Rango(bucle.omitidos) :
              n \notin Rango(Trazas(resp.figuras[1])) \cup Rango(Trazas(resp.figuras[2]))

\* a completed callback with two traces in each chart and a component of
\* the table left out
C10_Testigo ==
    /\ pc = "done" /\ resp.exc = ""
    /\ Len(resp.figuras[1]) = 2 /\ Len(resp.figuras[2]) = 2
    /\ Len(df) > 2

===========================================================================
